---------------------------- MODULE Spec2Model ----------------------------
(***************************************************************************)
(* Model of the Ozon search scraper: one API request (server.search)       *)
(* driving one OzonScraper (parser.py) through session setup, the search   *)
(* pipeline, per-card extraction, teardown and response building.          *)
(*                                                                         *)
(* Python values are tagged records:                                       *)
(*   [k |-> "null"]                 None / JSON null                       *)
(*   [k |-> "str", s |-> chars]     a string, chars a sequence of          *)
(*                                  one-character strings                  *)
(*   [k |-> "str", s |-> chars, doc |-> v]                                 *)
(*                                  a string that is well-formed JSON      *)
(*                                  text encoding the value v              *)
(*   [k |-> "num", n |-> i]         a JSON integer                         *)
(*   [k |-> "obj", f |-> record]    a JSON object / dict                   *)
(*   [k |-> "list", e |-> seq]      a JSON array / list                    *)
(* An evaluation that may raise yields [exc |-> name, v |-> value] with    *)
(* exc = "none" when it returns normally.                                  *)
(***************************************************************************)
EXTENDS Integers, Sequences, FiniteSets, TLC

(***************************************************************************)
(* Bounds of the model.                                                    *)
(***************************************************************************)
MaxDom == 2         \* at most this many card elements match CARD_SELECTOR
MaxCount == 2       \* count_cards is drawn from -1..MaxCount and the default
NumRequests == 2    \* search() calls in flight at once (concurrent requests)

(***************************************************************************)
(* Program constants.                                                      *)
(***************************************************************************)
SCROLL_DEPTH == 5
DEFAULT_CARD_COUNT == 15

None == [k |-> "null"]
Str(chars) == [k |-> "str", s |-> chars]
Text(chars, v) == [k |-> "str", s |-> chars, doc |-> v]
Num(i) == [k |-> "num", n |-> i]
Obj(rec) == [k |-> "obj", f |-> rec]
List(seq) == [k |-> "list", e |-> seq]

Ok(v) == [exc |-> "none", v |-> v]
Raise(name) == [exc |-> name, v |-> None]
\* The element of a singleton: Only({F(x) : x \in {e}}) is F(e) with e
\* evaluated once.
Only(S) == CHOOSE x \in S : TRUE

URL_BASE == <<"o", "z">>
ADULT_CONTENT_MARKER == <<"u", "A", "M">>
ADULT_CONTENT_DESCRIPTION == <<"1", "8", "+">>
S_unknown == <<"u", "n", "k", "n", "o", "w", "n">>
S_Error == <<"E", "r", "r", "o", "r">>
S_Failed == <<"F", "a", "i", "l", "e", "d", " ", "t", "o", " ", "p", "a", "r", "s", "e",
              " ", "p", "r", "o", "d", "u", "c", "t", " ", "i", "n", "f", "o">>
S_None == <<"N", "o", "n", "e">>
S_ProductOrigin == <<"o", "z", "/", "p", "/">>

(***************************************************************************)
(* Python primitives used by the extractor.                                *)
(***************************************************************************)
\* obj[name] with a string key
GetKey(v, name) ==
    IF v.k = "obj"
    THEN IF name \in DOMAIN v.f THEN Ok(v.f[name]) ELSE Raise("KeyError")
    ELSE Raise("TypeError")

\* obj[0]
GetFirst(v) ==
    CASE v.k = "list" -> IF Len(v.e) > 0 THEN Ok(v.e[1]) ELSE Raise("IndexError")
      [] v.k = "str" -> IF Len(v.s) > 0 THEN Ok(Str(<<v.s[1]>>)) ELSE Raise("IndexError")
      [] v.k = "obj" -> Raise("KeyError")
      [] OTHER -> Raise("TypeError")

\* json.loads(text)
json_loads(v) ==
    IF v.k # "str" THEN Raise("TypeError")
    ELSE IF "doc" \in DOMAIN v THEN Ok(v.doc) ELSE Raise("JSONDecodeError")

\* One subscript or call of a chained lookup: "[0]" is obj[0], "json.loads"
\* parses the string reached so far, any other key is obj[key].
Step(v, key) ==
    CASE key = "[0]" -> GetFirst(v)
      [] key = "json.loads" -> json_loads(v)
      [] OTHER -> GetKey(v, key)

\* A chained lookup, left to right, ending at the first step that raises
RECURSIVE Walk(_, _)
Walk(v, path) ==
    IF path = <<>> THEN Ok(v)
    ELSE Only({IF r.exc # "none" THEN r ELSE Walk(r.v, Tail(path)) :
               r \in {Step(v, Head(path))}})

IsSpace(c) == c = " "

\* str.split(): the whitespace-delimited tokens, none of them empty
RECURSIVE SplitFrom(_, _, _)
SplitFrom(chars, i, cur) ==
    IF i > Len(chars)
    THEN IF cur = <<>> THEN <<>> ELSE <<cur>>
    ELSE IF IsSpace(chars[i])
         THEN IF cur = <<>> THEN SplitFrom(chars, i + 1, <<>>)
              ELSE <<cur>> \o SplitFrom(chars, i + 1, <<>>)
         ELSE SplitFrom(chars, i + 1, Append(cur, chars[i]))

Split(chars) == SplitFrom(chars, 1, <<>>)

\* s[1:-1]
StripEnds(chars) == IF Len(chars) <= 2 THEN <<>> ELSE SubSeq(chars, 2, Len(chars) - 1)

Digit(d) == <<"0", "1", "2", "3", "4", "5", "6", "7", "8", "9">>[d + 1]

RECURSIVE Digits(_)
Digits(i) == IF i < 10 THEN <<Digit(i)>> ELSE Append(Digits(i \div 10), Digit(i % 10))

\* str(v) as an f-string field renders it; the payloads of this model put only
\* strings, naturals and null where a value is formatted.
Format(v) ==
    CASE v.k = "str" -> v.s
      [] v.k = "num" -> Digits(v.n)
      [] v.k = "null" -> S_None
      [] OTHER -> <<"?">>

(***************************************************************************)
(* ProductInfo and the secondary fetch.                                    *)
(***************************************************************************)
ProductInfo(product_id, short_name, full_name, description, url, price, price_with_card, image_url) ==
    [product_id |-> product_id, short_name |-> short_name, full_name |-> full_name,
     description |-> description, url |-> url, price |-> price,
     price_with_card |-> price_with_card, image_url |-> image_url]

SentinelInfo(product_url) ==
    ProductInfo(Str(S_unknown), Str(S_Error), Str(S_Error), Str(S_Failed),
                product_url, None, None, None)

\* full_name.split()[-1] then str(...)[1:-1]
GatedProductId(full_name) ==
    IF full_name.k # "str" THEN Raise("AttributeError")
    ELSE LET toks == Split(full_name.s)
         IN  IF toks = <<>> THEN Raise("IndexError")
             ELSE Ok(Str(StripEnds(toks[Len(toks)])))

\* Mutant of GatedInfo: the gated record keeps the title as its description.
GatedInfoKeepsText(full_name, product_url) ==
    Only({IF product_id.exc # "none" THEN product_id
          ELSE Ok(ProductInfo(product_id.v, full_name, full_name, full_name,
                              product_url, None, None, None)) :
          product_id \in {GatedProductId(full_name)}})

GatedInfo(full_name, product_url) ==
    Only({IF product_id.exc # "none" THEN product_id
          ELSE Ok(ProductInfo(product_id.v, full_name, full_name,
                              Str(ADULT_CONTENT_DESCRIPTION),
                              product_url, None, None, None)) :
          product_id \in {GatedProductId(full_name)}})

\* Mutant of PriceText: the currency is left out.
PriceTextNoCurrency(price, currency) == Str(Format(price))

\* f"{script_data['offers']['price']} {script_data['offers']['priceCurrency']}"
PriceText(price, currency) == Str(Format(price) \o <<" ">> \o Format(currency))

\* script_data = json.loads(json_data["seo"]["script"][0]["innerHTML"])
ScriptPath == <<"seo", "script", "[0]", "innerHTML", "json.loads">>

\* Lines 108-113: the lookups in the order the code makes them; the first one
\* that raises ends the block.
NormalInfo(json_data, full_name, product_url) ==
    Only({IF script_data.exc # "none" THEN script_data
          ELSE Only({IF description.exc # "none" THEN description
                     ELSE IF image_url.exc # "none" THEN image_url
                     ELSE IF price.exc # "none" THEN price
                     ELSE IF currency.exc # "none" THEN currency
                     ELSE IF sku.exc # "none" THEN sku
                     ELSE Ok(ProductInfo(sku.v, full_name, full_name, description.v,
                                         product_url,
                                         PriceText(price.v, currency.v),
                                         None, image_url.v)) :
                     description \in {GetKey(script_data.v, "description")},
                     image_url \in {GetKey(script_data.v, "image")},
                     price \in {Walk(script_data.v, <<"offers", "price">>)},
                     currency \in {Walk(script_data.v, <<"offers", "priceCurrency">>)},
                     sku \in {GetKey(script_data.v, "sku")}}) :
          script_data \in {Walk(json_data, ScriptPath)}})

\* The body of the try block of _get_product_info. resp is what session.get
\* produces: [transport |-> "error"] or [transport |-> "ok", content |-> text].
ProductInfoTry(resp, product_url) ==
    IF resp.transport # "ok" THEN Raise("RequestsError")
    ELSE
    Only({IF json_data.exc # "none" THEN json_data
          ELSE Only({IF full_name.exc # "none" THEN full_name
                     ELSE IF component.exc # "none" THEN component
                     ELSE IF component.v = Str(ADULT_CONTENT_MARKER)
                     THEN GatedInfo(full_name.v, product_url)
                     ELSE NormalInfo(json_data.v, full_name.v, product_url) :
                     full_name \in {Walk(json_data.v, <<"seo", "title">>)},
                     component \in {Walk(json_data.v, <<"layout", "[0]", "component">>)}}) :
          json_data \in {json_loads(resp.content)}})

CaughtByProductInfo == {"JSONDecodeError", "KeyError", "IndexError"}

\* _get_product_info: the try block, with the three caught exception classes
\* turned into the sentinel record and every other one left to propagate.
get_product_info(resp, product_url) ==
    Only({IF r.exc \in CaughtByProductInfo THEN Ok(SentinelInfo(product_url)) ELSE r :
          r \in {ProductInfoTry(resp, product_url)}})


(***************************************************************************)
(* Card extraction.  A card element of the DOM is described by             *)
(*   link   "absent" | "present"    query_selector(CARD_LINK_SELECTOR)     *)
(*   href   None, Str(<<>>) or a relative path                             *)
(*   name   "absent" | "text" | "raises"   the name element and its        *)
(*          inner_text() call                                              *)
(*   price  "absent" | "text" | "raises"   the loyalty-price element and   *)
(*          its inner_text() call                                          *)
(*   price_text  the loyalty-price text                                    *)
(*   resp   what the secondary API answers for this card's href            *)
(***************************************************************************)
\* Mutant of Falsy: only None is rejected, an empty href goes on.
FalsyNoneOnly(v) == v.k = "null"

\* Python truthiness of an attribute value: `not card_url`
Falsy(v) == v.k = "null" \/ (v.k = "str" /\ v.s = <<>>)

\* Mutant of ScrapedPrice: the loyalty price is never read.
ScrapedPriceLost(card) == None

\* price_with_card: the loyalty-price element's text, None without the element
ScrapedPrice(card) == IF card.price = "text" THEN card.price_text ELSE None

\* The try block of _get_card_info: [r |-> returned or raised, fetched |-> whether
\* session.get was called].
CardInfoTry(card) ==
    IF card.link = "absent" THEN [r |-> Ok(None), fetched |-> FALSE]
    ELSE IF Falsy(card.href) THEN [r |-> Ok(None), fetched |-> FALSE]
    ELSE IF card.name = "absent" THEN [r |-> Ok(None), fetched |-> FALSE]
    ELSE IF card.name = "raises" THEN [r |-> Raise("PlaywrightError"), fetched |-> FALSE]
    ELSE IF card.price = "raises" THEN [r |-> Raise("PlaywrightError"), fetched |-> FALSE]
    ELSE LET price_with_card == ScrapedPrice(card)
         IN  Only({[r |-> IF product_info.exc # "none" THEN product_info
                          ELSE Ok([product_info.v EXCEPT
                                      !.price_with_card = price_with_card]),
                    fetched |-> TRUE] :
                   product_info \in {get_product_info(card.resp, card.href)}})

\* _get_card_info: `except Exception` turns every raise into a None return.
get_card_info(card) ==
    Only({[ret |-> IF t.r.exc = "none" THEN t.r.v ELSE None, fetched |-> t.fetched] :
          t \in {CardInfoTry(card)}})

\* Mutant of AppendTruthy: a result is put in front of the list.
PrependTruthy(cards, product_info) ==
    IF product_info # None THEN <<product_info>> \o cards ELSE cards

\* if product_info: cards_info.append(product_info)
AppendTruthy(cards, product_info) ==
    IF product_info # None THEN Append(cards, product_info) ELSE cards

\* Mutant of CardSlice: the cap is off by one.
CardSliceOffByOne(cards, count) ==
    SubSeq(cards, 1, IF count + 1 > Len(cards) THEN Len(cards)
                     ELSE IF count + 1 < 0 THEN 0 ELSE count + 1)

\* cards[:count_cards], Python slice semantics (a negative stop counts from the end)
CardSlice(cards, count) ==
    LET stop == IF count >= 0 THEN count ELSE Len(cards) + count
        n == IF stop < 0 THEN 0 ELSE IF stop > Len(cards) THEN Len(cards) ELSE stop
    IN  SubSeq(cards, 1, n)

(***************************************************************************)
(* The inputs: secondary-API answers and card elements.                    *)
(***************************************************************************)
T_Soap == <<"S", " ", "[", "5", "]">>
T_Restricted == <<"R", " ", "[", "9", "]">>
T_Bare == <<"x">>

ScriptDoc(description, offers, withSku) ==
    Obj(IF withSku
        THEN [description |-> description, image |-> Str(<<"i">>), offers |-> offers,
              sku |-> Str(<<"5">>)]
        ELSE [description |-> description, image |-> Str(<<"i">>), offers |-> offers])

Offers(price) == Obj([price |-> price, priceCurrency |-> Str(<<"R">>)])

FullScript == ScriptDoc(Str(<<"d">>), Offers(Str(<<"1", "0">>)), TRUE)

JsonText(doc) == Text(<<"{", "}">>, doc)

ScriptList(doc) == List(<<Obj([innerHTML |-> JsonText(doc)])>>)

PageJson(title, layout, script) ==
    Obj([seo |-> Obj([title |-> title, script |-> script]), layout |-> layout])

Layout(component) == List(<<Obj([component |-> Str(component)])>>)

Body(doc) == [transport |-> "ok", content |-> JsonText(doc)]

R_transport == [transport |-> "error"]
R_malformed == [transport |-> "ok", content |-> Str(<<"<">>)]
R_normal == Body(PageJson(Str(T_Soap), Layout(<<"o">>), ScriptList(FullScript)))
R_numprice ==
    Body(PageJson(Str(T_Soap), Layout(<<"o">>),
                  ScriptList(ScriptDoc(Str(<<"d">>), Offers(Num(12)), TRUE))))
R_gated == Body(PageJson(Str(T_Restricted), Layout(ADULT_CONTENT_MARKER), List(<<>>)))
R_gated_full ==
    Body(PageJson(Str(T_Restricted), Layout(ADULT_CONTENT_MARKER), ScriptList(FullScript)))
R_gated_bare == Body(PageJson(Str(T_Bare), Layout(ADULT_CONTENT_MARKER), List(<<>>)))
R_gated_empty == Body(PageJson(Str(<<>>), Layout(ADULT_CONTENT_MARKER), List(<<>>)))
R_gated_nulltitle == Body(PageJson(None, Layout(ADULT_CONTENT_MARKER), List(<<>>)))
R_noseo == Body(Obj([layout |-> Layout(<<"o">>)]))
R_emptylayout == Body(PageJson(Str(T_Soap), List(<<>>), ScriptList(FullScript)))
R_strlayout == Body(PageJson(Str(T_Soap), Str(<<"a", "b">>), ScriptList(FullScript)))
R_objlayout ==
    Body(PageJson(Str(T_Soap), Obj([component |-> Str(<<"o">>)]), ScriptList(FullScript)))
R_badinner ==
    Body(PageJson(Str(T_Soap), Layout(<<"o">>),
                  List(<<Obj([innerHTML |-> Str(<<"<">>)])>>)))
R_nosku ==
    Body(PageJson(Str(T_Soap), Layout(<<"o">>),
                  ScriptList(ScriptDoc(Str(<<"d">>), Offers(Str(<<"1", "0">>)), FALSE))))
R_listoffers ==
    Body(PageJson(Str(T_Soap), Layout(<<"o">>),
                  ScriptList(ScriptDoc(Str(<<"d">>), List(<<>>), TRUE))))
R_nulltitle == Body(PageJson(None, Layout(<<"o">>), ScriptList(FullScript)))
R_emptydesc ==
    Body(PageJson(Str(T_Soap), Layout(<<"o">>),
                  ScriptList(ScriptDoc(Str(<<>>), Offers(Str(<<"1", "0">>)), TRUE))))

Responses ==
    {R_transport, R_malformed, R_normal, R_numprice, R_gated, R_gated_full, R_gated_bare,
     R_gated_empty, R_gated_nulltitle, R_noseo, R_emptylayout, R_strlayout, R_objlayout,
     R_badinner, R_nosku, R_listoffers, R_nulltitle, R_emptydesc}

NoResp == [transport |-> "unused"]
LoyaltyText == Str(<<"9", " ", "R">>)

\* The relative link of the card at DOM position i
Href(i) == Str(<<"/">> \o Digits(i))

Card(link, href, name, price, resp) ==
    [link |-> link, href |-> href, name |-> name, price |-> price,
     price_text |-> IF price = "text" THEN LoyaltyText ELSE None, resp |-> resp]

\* The card elements that can stand at DOM position i.  The cards the code
\* leaves before the secondary fetch are given one answer, the complete one.
Unfetched(i) ==
    {Card("absent", None, "text", "absent", R_normal),
     Card("present", None, "text", "text", R_normal),
     Card("present", Str(<<>>), "text", "text", R_normal),
     Card("present", Href(i), "absent", "text", R_normal),
     Card("present", Href(i), "raises", "text", R_normal),
     Card("present", Href(i), "text", "raises", R_normal)}

Identified(i) ==
    {Card("present", Href(i), "text", price, resp) :
        price \in {"absent", "text"}, resp \in Responses}

CardKinds(i) == Unfetched(i) \cup Identified(i)

NoCard == Card("none", None, "none", "none", NoResp)

(***************************************************************************)
(* The request: server.search running `async with OzonScraper(url)`.       *)
(***************************************************************************)
VARIABLES
    pc,           \* where the request is: "enter", "goto", "sleep", "reload", "wait",
                  \* "scroll", "query", "cards", "close", "respond", "except", "done"
    count_cards,  \* OzonScraper.count_cards
    res,          \* per layer: "none" (never acquired), "open", "closed" (released),
                  \* "failed" (its release raised)
    err,          \* the exception in flight, named by the step that raised it
    scrolls,      \* scroll steps done by _scroll_down
    dom,          \* the handles query_selector_all returned, in DOM order
    sliced,       \* cards[:count_cards]
    handled,      \* the handles passed to _get_card_info so far, in order
    fetched,      \* the handles whose href was fetched from the secondary API
    card,         \* the card element most recently passed to _get_card_info
    ret,          \* what _get_card_info returned for it
    cards_info,   \* the list get_searchpage_cards builds
    closeLog,     \* the layers close() called a release on, in order
    outcome,      \* "pending", "ok" (SearchResponse) or "http500" (HTTPException)
    results,      \* SearchResponse.results
    calls,        \* the awaits of get_searchpage_cards that completed, in order
                  \* (the per-card calls are in handled)
    detail,       \* the error whose text the HTTPException carries
    \* Concurrent requests: search() calls r \in Requests, each awaiting its
    \* way through __aenter__, the pipeline and close().
    creq,         \* per request: [pc, n], pc one of "idle", "entering", "running",
                  \* "closing", "done"; n the layers acquired resp. closed so far
    cfields,      \* per OzonScraper object: the handle each field holds, 0 for None
    clive,        \* the handles of resources that exist and are not released
    cown          \* per request: the handles it acquired and has not released

mainVars == <<pc, count_cards, res, err, scrolls, dom, sliced, handled, fetched, card, ret,
              cards_info, closeLog, outcome, results, calls, detail>>

concVars == <<creq, cfields, clive, cown>>

vars == <<mainVars, concVars>>

Requests == 1..NumRequests

\* The layers in the order __aenter__ acquires them
AcquireOrder == <<"playwright", "browser", "context", "page", "session">>
\* Mutant of CloseOrder: close() releases in the order of acquisition.
CloseOrderForward == <<"playwright", "browser", "context", "page", "session">>
\* The layers in the order close() releases them
CloseOrder == <<"session", "page", "context", "browser", "playwright">>
Layers == {AcquireOrder[i] : i \in 1..Len(AcquireOrder)}

\* The awaits of __aenter__ that can raise: start, launch, new_context, new_page,
\* set_viewport_size.  When the k-th raises, the first k-1 layers are held.
SetupSteps == 5

CountValues == (-1..MaxCount) \cup {DEFAULT_CARD_COUNT}

Init ==
    /\ pc = "enter"
    /\ count_cards \in CountValues
    /\ res = [l \in Layers |-> "none"]
    /\ err = "none"
    /\ scrolls = 0
    /\ dom = <<>>
    /\ sliced = <<>>
    /\ handled = <<>>
    /\ fetched = <<>>
    /\ card = NoCard
    /\ ret = None
    /\ cards_info = <<>>
    /\ closeLog = <<>>
    /\ outcome = "pending"
    /\ results = <<>>
    /\ calls = <<>>
    /\ detail = "none"
    /\ creq = [r \in Requests |-> [pc |-> "idle", n |-> 0]]
    /\ cfields = [o \in Requests |-> [l \in Layers |-> 0]]
    /\ clive = {}
    /\ cown = [r \in Requests |-> {}]

pipeVars == <<scrolls, dom, sliced, handled, fetched, card, ret, cards_info>>

\* The layers held after __aenter__ ran with its failAt-th await raising
\* (failAt = 0: none raised, the session is created last).
AcquiredBy(failAt) ==
    IF failAt = 0 THEN Layers ELSE {AcquireOrder[i] : i \in 1..(failAt - 1)}

\* What leaving `async with` does when __aenter__ raised: __aexit__ is not
\* called, the error goes straight to the except clause of search.
AfterEnterFailure == "except"

\* search: `async with OzonScraper(url) as scraper` entering the context
Enter ==
    /\ pc = "enter"
    /\ \E failAt \in 0..SetupSteps :
          /\ res' = [l \in Layers |-> IF l \in AcquiredBy(failAt) THEN "open" ELSE "none"]
          /\ err' = IF failAt = 0 THEN "none" ELSE "setup"
          /\ pc' = IF failAt = 0 THEN "goto" ELSE AfterEnterFailure
    /\ UNCHANGED <<count_cards, pipeVars, closeLog, outcome, results, calls, detail>>
    /\ UNCHANGED concVars

\* A pipeline await that either completes or raises; a raise leaves the
\* `async with` block through __aexit__.
PipeStep(at, next, name) ==
    /\ pc = at
    /\ \E ok \in BOOLEAN :
          /\ pc' = IF ok THEN next ELSE "close"
          /\ err' = IF ok THEN "none" ELSE name
          /\ calls' = IF ok THEN Append(calls, name) ELSE calls
    /\ UNCHANGED <<count_cards, res, pipeVars, closeLog, outcome, results, detail>>
    /\ UNCHANGED concVars

Goto == PipeStep("goto", "sleep", "goto")

Sleep ==
    /\ pc = "sleep"
    /\ pc' = "reload"
    /\ calls' = Append(calls, "sleep")
    /\ UNCHANGED <<count_cards, res, err, pipeVars, closeLog, outcome, results, detail>>
    /\ UNCHANGED concVars

Reload == PipeStep("reload", "wait", "reload")

WaitIdle == PipeStep("wait", "scroll", "wait")

\* Mutant of ScrollDone: the loop stops one step early.
ScrollDoneEarly(n) == n >= SCROLL_DEPTH - 1

\* for _ in range(SCROLL_DEPTH): the loop is over after n steps
ScrollDone(n) == n >= SCROLL_DEPTH

\* One iteration of _scroll_down: evaluate + wait_for_timeout
Scroll ==
    /\ pc = "scroll"
    /\ ~ScrollDone(scrolls)
    /\ \E ok \in BOOLEAN :
          /\ scrolls' = IF ok THEN scrolls + 1 ELSE scrolls
          /\ pc' = IF ok THEN "scroll" ELSE "close"
          /\ err' = IF ok THEN "none" ELSE "scroll"
          /\ calls' = IF ok THEN Append(calls, "scroll") ELSE calls
    /\ UNCHANGED <<count_cards, res, dom, sliced, handled, fetched, card, ret, cards_info,
                   closeLog, outcome, results, detail>>
    /\ UNCHANGED concVars

\* query_selector_all, cards_info = [], and the slice the for loop iterates
Query ==
    /\ pc = "scroll"
    /\ ScrollDone(scrolls)
    /\ \/ /\ \E n \in 0..MaxDom :
               /\ dom' = [i \in 1..n |-> i]
               /\ sliced' = CardSlice([i \in 1..n |-> i], count_cards)
          /\ pc' = "cards"
          /\ err' = "none"
          /\ calls' = Append(calls, "query")
       \/ /\ pc' = "close"
          /\ err' = "query"
          /\ UNCHANGED <<dom, sliced, calls>>
    /\ UNCHANGED <<count_cards, res, scrolls, handled, fetched, card, ret, cards_info,
                   closeLog, outcome, results, detail>>
    /\ UNCHANGED concVars

\* One iteration of the for loop: _get_card_info on the next handle, then the
\* append of a truthy result.
CardStep ==
    /\ pc = "cards"
    /\ Len(handled) < Len(sliced)
    /\ LET h == sliced[Len(handled) + 1]
       IN  \E c \in CardKinds(h) :
              \E g \in {get_card_info(c)} :
                  /\ card' = c
                  /\ ret' = g.ret
                  /\ handled' = Append(handled, h)
                  /\ fetched' = IF g.fetched THEN Append(fetched, h) ELSE fetched
                  /\ cards_info' = AppendTruthy(cards_info, g.ret)
    /\ UNCHANGED <<pc, count_cards, res, err, scrolls, dom, sliced, closeLog, outcome,
                   results, calls, detail>>
    /\ UNCHANGED concVars

\* return cards_info, leaving the `async with` block normally
Return ==
    /\ pc = "cards"
    /\ Len(handled) = Len(sliced)
    /\ pc' = "close"
    /\ calls' = Append(calls, "return")
    /\ UNCHANGED <<count_cards, res, err, pipeVars, closeLog, outcome, results, detail>>
    /\ UNCHANGED concVars

\* close(), run by __aexit__: the releases in CloseOrder, each guarded by
\* `if self.<layer>`, stopping at the first one that raises (failAt = 0: none).
CloseResult(r, failAt) ==
    [l \in Layers |->
        LET i == CHOOSE j \in 1..Len(CloseOrder) : CloseOrder[j] = l
        IN  IF r[l] # "open" THEN r[l]
            ELSE IF failAt = 0 \/ i < failAt THEN "closed"
            ELSE IF i = failAt THEN "failed"
            ELSE "open"]

RECURSIVE OpenAmong(_, _)
OpenAmong(r, layers) ==
    IF layers = <<>> THEN <<>>
    ELSE IF r[Head(layers)] = "open" THEN <<Head(layers)>> \o OpenAmong(r, Tail(layers))
    ELSE OpenAmong(r, Tail(layers))

CloseAttempts(r, failAt) ==
    OpenAmong(r, SubSeq(CloseOrder, 1, IF failAt = 0 THEN Len(CloseOrder) ELSE failAt))

Close ==
    /\ pc = "close"
    /\ \E failAt \in 0..Len(CloseOrder) :
          /\ res' = CloseResult(res, failAt)
          /\ closeLog' = CloseAttempts(res, failAt)
          /\ err' = IF failAt = 0 THEN err ELSE "close"
          /\ pc' = IF failAt = 0 /\ err = "none" THEN "respond" ELSE "except"
    /\ UNCHANGED <<count_cards, pipeVars, outcome, results, calls, detail>>
    /\ UNCHANGED concVars

\* ProductInfoResponse(...): the declared field types of the response model
Required == {"product_id", "short_name", "full_name", "description"}
Optional == {"price", "price_with_card", "image_url"}

Validates(p) ==
    /\ \A f \in Required : p[f].k = "str"
    /\ \A f \in Optional : p[f].k \in {"str", "null"}

\* One element of the results list, url rewritten from product_id
ResponseItem(p) ==
    [p EXCEPT !.url = Str(S_ProductOrigin \o Format(p.product_id))]

\* search, after the `async with` block: build SearchResponse
Respond ==
    /\ pc = "respond"
    /\ IF \A i \in 1..Len(cards_info) : Validates(cards_info[i])
       THEN /\ results' = [i \in 1..Len(cards_info) |-> ResponseItem(cards_info[i])]
            /\ outcome' = "ok"
            /\ pc' = "done"
            /\ err' = err
       ELSE /\ err' = "validation"
            /\ pc' = "except"
            /\ UNCHANGED <<results, outcome>>
    /\ UNCHANGED <<count_cards, res, pipeVars, closeLog, calls, detail>>
    /\ UNCHANGED concVars

\* search: except Exception -> HTTPException(status_code=500)
Except ==
    /\ pc = "except"
    /\ outcome' = "http500"
    /\ detail' = err
    /\ pc' = "done"
    /\ UNCHANGED <<count_cards, res, err, pipeVars, closeLog, results, calls>>
    /\ UNCHANGED concVars

Next ==
    \/ Enter
    \/ Goto
    \/ Sleep
    \/ Reload
    \/ WaitIdle
    \/ Scroll
    \/ Query
    \/ CardStep
    \/ Return
    \/ Close
    \/ Respond
    \/ Except

Spec == Init /\ [][Next]_vars

(***************************************************************************)
(* Concurrent requests.  Each search() call constructs its own OzonScraper *)
(* and every acquisition hands out a resource that did not exist before;   *)
(* the calls interleave at their awaits.                                   *)
(***************************************************************************)
\* Mutant of Self: one scraper object serves every request.
SelfShared(r) == 1

\* The OzonScraper object of request r: OzonScraper(url) is a new object
Self(r) == r

\* The resource the i-th acquisition of request r creates: every acquiring
\* call returns a new object, so the handle is one no other call returns.
Handle(r, i) == (r - 1) * Len(AcquireOrder) + i

FieldHandles(o) == {cfields[o][l] : l \in Layers} \ {0}

\* OzonScraper(url): the fields start as None
CConstruct(r) ==
    /\ creq[r].pc = "idle"
    /\ creq' = [creq EXCEPT ![r] = [pc |-> "entering", n |-> 0]]
    /\ cfields' = [cfields EXCEPT ![Self(r)] = [l \in Layers |-> 0]]
    /\ UNCHANGED <<clive, cown, mainVars>>

\* One await of __aenter__: the next layer is acquired and stored in its
\* field, or the call raises and the request ends without __aexit__.
CAcquire(r) ==
    /\ creq[r].pc = "entering"
    /\ \/ /\ cfields' = [cfields EXCEPT ![Self(r)][AcquireOrder[creq[r].n + 1]] =
                                                      Handle(r, creq[r].n + 1)]
          /\ clive' = clive \cup {Handle(r, creq[r].n + 1)}
          /\ cown' = [cown EXCEPT ![r] = @ \cup {Handle(r, creq[r].n + 1)}]
          /\ creq' = [creq EXCEPT ![r] =
                         IF creq[r].n + 1 = Len(AcquireOrder)
                         THEN [pc |-> "running", n |-> 0]
                         ELSE [pc |-> "entering", n |-> creq[r].n + 1]]
       \/ /\ creq[r].n < SetupSteps
          /\ creq' = [creq EXCEPT ![r] = [pc |-> "done", n |-> creq[r].n]]
          /\ UNCHANGED <<cfields, clive, cown>>
    /\ UNCHANGED mainVars

\* get_searchpage_cards runs on the page and the session and ends (returning
\* or raising); __aexit__ then starts close().
CRun(r) ==
    /\ creq[r].pc = "running"
    /\ creq' = [creq EXCEPT ![r] = [pc |-> "closing", n |-> 0]]
    /\ UNCHANGED <<cfields, clive, cown, mainVars>>

\* One `if self.<layer>: await self.<layer>.close()` of close()
CRelease(r) ==
    /\ creq[r].pc = "closing"
    /\ LET h == cfields[Self(r)][CloseOrder[creq[r].n + 1]]
           after == IF creq[r].n + 1 = Len(CloseOrder)
                    THEN [pc |-> "done", n |-> creq[r].n + 1]
                    ELSE [pc |-> "closing", n |-> creq[r].n + 1]
       IN  \/ /\ h = 0
              /\ creq' = [creq EXCEPT ![r] = after]
              /\ UNCHANGED <<clive, cown>>
           \/ /\ h # 0
              /\ clive' = clive \ {h}
              /\ cown' = [cown EXCEPT ![r] = @ \ {h}]
              /\ creq' = [creq EXCEPT ![r] = after]
           \/ /\ h # 0
              /\ creq' = [creq EXCEPT ![r] = [pc |-> "done", n |-> creq[r].n]]
              /\ UNCHANGED <<clive, cown>>
    /\ UNCHANGED <<cfields, mainVars>>

ConcInit == Init /\ count_cards = DEFAULT_CARD_COUNT

ConcNext ==
    \E r \in Requests :
        \/ CConstruct(r)
        \/ CAcquire(r)
        \/ CRun(r)
        \/ CRelease(r)

SpecConc == ConcInit /\ [][ConcNext]_vars

(***************************************************************************)
(* Properties.                                                             *)
(***************************************************************************)
\* The href attribute is absent or the empty string
HrefMissing(c) == c.href = None \/ c.href = Str(<<>>)

\* The card has a link element with a non-empty href and a name element
IdentifiedCard(c) == c.link = "present" /\ ~HrefMissing(c) /\ c.name # "absent"

\* The card lacks the link element, the href or the name element
UnidentifiedCard(c) == c.link = "absent" \/ HrefMissing(c) \/ c.name = "absent"

\* This step is one iteration of the card loop
CardHandled == handled' # handled

\* C1: every card with a link element, a non-empty href and a name element
\* appends exactly one entity to the output, whatever its secondary fetch,
\* JSON parsing, name-text read or loyalty-price lookup does.
C1_ExactlyOnePerIdentifiedCard ==
    [][(CardHandled /\ IdentifiedCard(card'))
          => Len(cards_info') = Len(cards_info) + 1]_vars

\* C2: when the secondary fetch of an identified card fails with a transport
\* error, the output gets the sentinel record for it: product_id "unknown",
\* short_name "Error", description "Failed to parse product info", price,
\* price_with_card and image_url null, url the card's relative href.
C2_TransportErrorGivesSentinel ==
    (/\ card # NoCard
     /\ IdentifiedCard(card) /\ card.name = "text" /\ card.price # "raises"
     /\ card.resp = R_transport)
       => /\ ret = SentinelInfo(card.href)
          /\ cards_info # <<>>
          /\ cards_info[Len(cards_info)] = ret

\* C3: when __aenter__ fails part-way, every layer it had acquired is released
\* before the failure reaches the caller.
C3_SetupFailureReleasesAll ==
    (pc = "done" /\ err = "setup") => \A l \in Layers : res[l] # "open"

\* C4: after close() has ended, normally or with an error, a release has been
\* attempted on every layer that was acquired.
C4_CloseAttemptsEveryLayer ==
    closeLog # <<>> => \A l \in Layers : res[l] # "open"

\* The failures the claim lets escape: setup, navigation, reload, idle wait,
\* scrolling, enumeration; and a failing release is no per-card failure either.
EscapingErrors == {"setup", "goto", "reload", "wait", "scroll", "query", "close"}

\* C5: no per-card outcome fails the request: once the cards are enumerated
\* every card of the slice is processed, get_searchpage_cards returns and the
\* API answers with success.
C5_PerCardFailuresContained ==
    (pc = "done" /\ err \notin EscapingErrors)
       => (outcome = "ok" /\ handled = sliced)

\* C6: a card without link element, href or name element adds nothing to the
\* output and the loop goes on: the step raises nothing, stays in the loop,
\* and the loop is left only when every card of the slice has been handled.
C6_UnidentifiedCardDropped ==
    [][/\ (CardHandled /\ UnidentifiedCard(card'))
            => (cards_info' = cards_info /\ ret' = None /\ fetched' = fetched
                /\ pc' = "cards" /\ err' = "none")
       /\ (pc = "cards" /\ pc' # "cards") => (handled = sliced /\ pc' = "close"
                                              /\ err' = "none")]_vars

C6_Witness ==
    /\ pc = "cards"
    /\ card # NoCard /\ UnidentifiedCard(card)
    /\ Len(handled) = 1 /\ Len(sliced) = 2
    /\ cards_info = <<>>

NonEmptyStr(v) == v.k = "str" /\ v.s # <<>>

\* C7: every record of the output has non-empty product_id, short_name,
\* full_name, description and url.
C7_RequiredFieldsNonEmpty ==
    \A i \in 1..Len(cards_info) :
        \A f \in Required \cup {"url"} : NonEmptyStr(cards_info[i][f])

\* layout[0].component of the answer is the adult-content marker
IsGatedPayload(resp) ==
    /\ resp.transport = "ok"
    /\ Walk(resp.content, <<"json.loads", "layout", "[0]", "component">>)
          = Ok(Str(ADULT_CONTENT_MARKER))

\* seo.title of the answer is a string with at least one token
TitleHasToken(resp) ==
    Only({t.exc = "none" /\ t.v.k = "str" /\ Split(t.v.s) # <<>> :
          t \in {Walk(resp.content, <<"json.loads", "seo", "title">>)}})

CardFetched == card # NoCard /\ handled # <<>> /\ fetched # <<>>
                  /\ fetched[Len(fetched)] = handled[Len(handled)]

\* C8 as stated: every record built from a gated-variant payload has the fixed
\* description and null price and image_url.
C8_Original ==
    (CardFetched /\ IsGatedPayload(card.resp) /\ ret # None)
       => /\ ret.description = Str(ADULT_CONTENT_DESCRIPTION)
          /\ ret.price = None
          /\ ret.image_url = None

\* C8 amended: a record emitted for a gated-variant payload has null price and
\* image_url; its description is the fixed adult-content string when seo.title
\* is a string with at least one whitespace-delimited token, and otherwise the
\* record is the sentinel-error record.
C8_GatedRecord ==
    (CardFetched /\ IsGatedPayload(card.resp) /\ ret # None)
       => /\ ret.price = None
          /\ ret.image_url = None
          /\ IF TitleHasToken(card.resp)
             THEN ret.description = Str(ADULT_CONTENT_DESCRIPTION)
             ELSE ret = [SentinelInfo(card.href) EXCEPT !.price_with_card = card.price_text]

C8_Witness ==
    /\ CardFetched
    /\ card.resp = R_gated_full
    /\ ret # None
    /\ ret.description = Str(ADULT_CONTENT_DESCRIPTION)
    /\ cards_info # <<>> /\ cards_info[Len(cards_info)] = ret

Cap(count) == IF count < 0 THEN 0 ELSE count

\* C9 as stated, for every count_cards (a cap below zero read as zero): the
\* cards handed to the extractor, the fetches and the records never exceed it.
C9_Original ==
    /\ Len(handled) <= Cap(count_cards)
    /\ Len(fetched) <= Cap(count_cards)
    /\ Len(cards_info) <= Cap(count_cards)

\* C9 amended: for every count_cards >= 0 the cards handed to the extractor,
\* the fetches and the records never exceed count_cards; for every count_cards
\* the cards handed over are the first ones in DOM order, and no card beyond
\* them is fetched.
C9_CapRespected ==
    /\ handled = SubSeq(dom, 1, Len(handled))
    /\ Len(fetched) <= Len(handled)
    /\ Len(cards_info) <= Len(handled)
    /\ \A i \in 1..Len(fetched) : \E j \in 1..Len(handled) : fetched[i] = handled[j]
    /\ count_cards >= 0 =>
          /\ Len(handled) <= count_cards
          /\ \A i \in 1..Len(fetched) : fetched[i] <= count_cards

C9_Witness ==
    /\ pc = "done"
    /\ count_cards = 1
    /\ Len(dom) = 2
    /\ handled = <<1>>
    /\ fetched = <<1>>
    /\ Len(cards_info) = 1

\* C10: every resource opened for the request has been released before the
\* outcome is returned, on success and on a failure after setup.
C10_ReleasedBeforeOutcome ==
    (outcome = "ok" \/ (outcome = "http500" /\ err # "setup"))
       => \A l \in Layers : res[l] \in {"none", "closed"}

\* The DOM position of the card a record was built for (its url is the
\* card's href, and the hrefs of the cards differ)
PosOf(p) == CHOOSE h \in 1..Len(dom) : Href(h) = p.url

Last(seq) == seq[Len(seq)]

\* C11: the list get_searchpage_cards builds holds, in DOM order and without
\* duplicates, the results of the cards of cards[:count_cards] handled so far
\* that were not None: every record belongs to a handled card, the records
\* stand in increasing DOM position, and the card handled last has its result
\* (a full or a sentinel-error record) at the end of the list exactly when
\* the result is not None.
C11_DomOrderPreserved ==
    /\ handled = SubSeq(sliced, 1, Len(handled))
    /\ sliced = SubSeq(dom, 1, Len(sliced))
    /\ \A i \in 1..Len(cards_info) :
          \E j \in 1..Len(handled) : cards_info[i].url = Href(handled[j])
    /\ \A i, j \in 1..Len(cards_info) :
          i < j => PosOf(cards_info[i]) < PosOf(cards_info[j])
    /\ (handled # <<>> /\ ret # None)
          => (cards_info # <<>> /\ Last(cards_info) = ret
              /\ ret.url = Href(Last(handled)))
    /\ (handled # <<>> /\ ret = None)
          => \A i \in 1..Len(cards_info) : cards_info[i].url # Href(Last(handled))

C11_Witness ==
    /\ pc = "done"
    /\ outcome = "ok"
    /\ handled = <<1, 2>>
    /\ Len(cards_info) = 2
    /\ cards_info[1].product_id = Str(S_unknown) /\ cards_info[1].url = Href(1)
    /\ cards_info[2].product_id = Str(<<"5">>) /\ cards_info[2].url = Href(2)

\* The run left get_searchpage_cards because goto, reload or the idle wait
\* raised: teardown ran and the idle wait never completed.
NavigationFailed == closeLog # <<>> /\ Len(calls) < 4

\* C12: when page.goto, the reload or the network-idle wait fails, no card is
\* enumerated, no secondary fetch is issued, nothing is returned, and the
\* request ends in HTTP 500 carrying the navigation error's text.
C12_NavigationFailureFatal ==
    (pc = "done" /\ NavigationFailed)
       => /\ dom = <<>> /\ handled = <<>> /\ fetched = <<>>
          /\ cards_info = <<>> /\ results = <<>>
          /\ outcome = "http500"
          /\ detail \in {"goto", "reload", "wait"}

\* The answer is a normal-variant payload with every field the code reads
NormalComplete(resp) ==
    /\ resp.transport = "ok"
    /\ Only({c.exc = "none" /\ c.v # Str(ADULT_CONTENT_MARKER) :
             c \in {Walk(resp.content, <<"json.loads", "layout", "[0]", "component">>)}})
    /\ Walk(resp.content, <<"json.loads", "seo", "title">>).exc = "none"
    /\ \A path \in {<<"description">>, <<"image">>, <<"offers", "price">>,
                    <<"offers", "priceCurrency">>, <<"sku">>} :
          Walk(resp.content, <<"json.loads">> \o ScriptPath \o path).exc = "none"

\* C13: for a complete normal-variant payload the record has product_id = sku,
\* short_name = full_name = seo.title, description and image_url from the
\* script block, price = "<offers.price> <offers.priceCurrency>", url the
\* card's href and price_with_card the card's scraped loyalty-price text.
C13_NormalRecord ==
    (CardFetched /\ NormalComplete(card.resp))
       => LET json_data == card.resp.content.doc
              seo == json_data.f.seo
              script_data == seo.f.script.e[1].f.innerHTML.doc
              offers == script_data.f.offers
          IN  /\ ret # None
              /\ ret.product_id = script_data.f.sku
              /\ ret.short_name = seo.f.title
              /\ ret.full_name = seo.f.title
              /\ ret.description = script_data.f.description
              /\ ret.image_url = script_data.f.image
              /\ ret.price.k = "str"
              /\ ret.price.s = Format(offers.f.price) \o <<" ">> \o Format(offers.f.priceCurrency)
              /\ ret.url = card.href
              /\ ret.price_with_card = card.price_text
              /\ Last(cards_info) = ret

C13_Witness ==
    /\ CardFetched
    /\ card.resp = R_normal
    /\ card.price = "text"
    /\ ret = ProductInfo(Str(<<"5">>), Str(T_Soap), Str(T_Soap), Str(<<"d">>), Href(1),
                         Str(<<"1", "0", " ", "R">>), LoyaltyText, Str(<<"i">>))

\* C16: for an answer that is not the gated variant, a lookup failure (missing
\* key, value of the wrong shape, malformed JSON in the body or in innerHTML)
\* makes _get_product_info return the sentinel-error record; nothing is
\* raised past its caller, so the card is not lost.
C16_LookupFailureGivesSentinel ==
    (/\ CardFetched
     /\ card.resp.transport = "ok"
     /\ ~IsGatedPayload(card.resp)
     /\ ~NormalComplete(card.resp))
       => /\ ret # None
          /\ [ret EXCEPT !.price_with_card = None] = SentinelInfo(card.href)

RECURSIVE Repeat(_, _)
Repeat(x, n) == IF n = 0 THEN <<>> ELSE <<x>> \o Repeat(x, n - 1)

\* The awaits of get_searchpage_cards in program order
PipelineOrder ==
    <<"goto", "sleep", "reload", "wait">> \o Repeat("scroll", SCROLL_DEPTH)
        \o <<"query", "return">>

\* The phase a run is in, from the calls it has completed
Phase(done) ==
    CASE Len(done) = 0 -> "Idle"
      [] Len(done) \in 1..3 -> "Navigated"
      [] Len(done) \in 4..(3 + SCROLL_DEPTH) -> "Settled"
      [] Len(done) = 4 + SCROLL_DEPTH -> "Scrolled"
      [] Len(done) = 5 + SCROLL_DEPTH -> "CardsEnumerated"
      [] OTHER -> "Completed"

PhaseRank(ph) ==
    CASE ph = "Idle" -> 0 [] ph = "Navigated" -> 1 [] ph = "Settled" -> 2
      [] ph = "Scrolled" -> 3 [] ph = "CardsEnumerated" -> 4 [] OTHER -> 5

\* C17: a run goes through Idle, Navigated, Settled, Scrolled, CardsEnumerated,
\* Completed in that order, one phase at a time and never back: every step
\* either completes the next call of the program order or none; the scroll
\* steps happen only once the page is settled, the card query only after the
\* last scroll step, and cards are handled and fetched only once enumerated.
C17_PhasesInOrder ==
    [][/\ \/ calls' = calls
          \/ /\ Len(calls) < Len(PipelineOrder)
             /\ calls' = Append(calls, PipelineOrder[Len(calls) + 1])
       /\ PhaseRank(Phase(calls')) \in {PhaseRank(Phase(calls)), PhaseRank(Phase(calls)) + 1}
       /\ scrolls' # scrolls => (Phase(calls) = "Settled" /\ scrolls' = scrolls + 1)
       /\ dom' # dom => (Phase(calls) = "Scrolled" /\ scrolls = SCROLL_DEPTH)
       /\ (handled' # handled \/ fetched' # fetched \/ cards_info' # cards_info)
             => (Phase(calls) = "CardsEnumerated" /\ Phase(calls') = "CardsEnumerated")]_vars

C17_Witness ==
    /\ Phase(calls) = "Completed"
    /\ calls = PipelineOrder
    /\ scrolls = SCROLL_DEPTH
    /\ Len(handled) = 2
    /\ fetched # <<>>

\* C18: every emitted record has price_with_card equal to the card's scraped
\* loyalty-price text, or null when the card has no loyalty-price element; a
\* card without that element is emitted like one with it; and the record is,
\* in every other field, the one _get_product_info built.
C18_PriceWithCardOverwrite ==
    CardFetched =>
       Only({/\ (built.exc = "none") <=> (ret # None)
             /\ ret # None =>
                  /\ ret.price_with_card =
                        (IF card.price = "absent" THEN None ELSE LoyaltyText)
                  /\ [ret EXCEPT !.price_with_card = None] = built.v
                  /\ built.v.price_with_card = None
                  /\ Last(cards_info) = ret :
             built \in {get_product_info(card.resp, card.href)}})

C18_Witness ==
    /\ CardFetched
    /\ card.price = "absent"
    /\ card.resp = R_normal
    /\ ret # None
    /\ ret.price_with_card = None
    /\ ret.price = Str(<<"1", "0", " ", "R">>)

Reverse(seq) == [i \in 1..Len(seq) |-> seq[Len(seq) + 1 - i]]

\* C19: close() releases in the reverse of the acquisition order (automation
\* driver, browser, context, page, HTTP session): the releases it has called
\* are a prefix of that reverse order, and a layer is released only when
\* every layer acquired after it has been released.
C19_ReverseOrderRelease ==
    /\ closeLog = SubSeq(Reverse(AcquireOrder), 1, Len(closeLog))
    /\ \A i, j \in 1..Len(AcquireOrder) :
          (i < j /\ res[AcquireOrder[i]] \in {"closed", "failed"})
             => res[AcquireOrder[j]] = "closed"
    /\ \A i \in 1..Len(AcquireOrder) :
          res[AcquireOrder[i]] # "none" =>
             \A j \in 1..i : res[AcquireOrder[j]] # "none"

C19_Witness ==
    /\ closeLog = <<"session", "page", "context", "browser", "playwright">>
    /\ \A l \in Layers : res[l] = "closed"

\* C20: a secondary fetch is issued at most once per card, and only for a card
\* with link element, non-empty href and name element: a card dropped for a
\* missing link, href or name causes no request.
C20_FetchOncePerIdentifiedCard ==
    /\ \A i, j \in 1..Len(fetched) : i # j => fetched[i] # fetched[j]
    /\ \A i \in 1..Len(fetched) : \E j \in 1..Len(handled) : fetched[i] = handled[j]
    /\ (card # NoCard /\ handled # <<>> /\ ~(IdentifiedCard(card)))
          => \A i \in 1..Len(fetched) : fetched[i] # Last(handled)

C20_Witness ==
    /\ Len(handled) = 2
    /\ fetched = <<1>>
    /\ UnidentifiedCard(card)
    /\ ret = None

Active(r) == creq[r].pc \in {"entering", "running", "closing"}

\* C15: concurrent requests share no resource: what a request acquired and
\* has not released itself still exists (no other request's teardown released
\* it), no resource belongs to two requests, and the fields of a request's
\* scraper never hold a resource another request owns.
C15_NoSharedResource ==
    /\ \A r \in Requests : cown[r] \subseteq clive
    /\ \A r1, r2 \in Requests : r1 # r2 => cown[r1] \cap cown[r2] = {}
    /\ \A r1, r2 \in Requests :
          (r1 # r2 /\ Active(r1)) => FieldHandles(Self(r1)) \cap cown[r2] = {}
    /\ \A r \in Requests :
          creq[r].pc = "running" => (FieldHandles(Self(r)) = cown[r]
                                      /\ Cardinality(cown[r]) = Len(AcquireOrder))

\* Request 1 is done after a complete teardown of its five resources, and
\* request 2 is running and still holds its own five, all of them live.
C15_Witness ==
    /\ creq[1] = [pc |-> "done", n |-> 5]
    /\ cown[1] = {}
    /\ creq[2].pc = "running"
    /\ Cardinality(cown[2]) = 5
    /\ cown[2] \subseteq clive

=============================================================================
